---- MODULE Spec2Model ----
(***************************************************************************)
(* approved.js: the rule-evaluation engines of class Approval              *)
(* (dist/index.js).  validateInput runs an ordered list of validation      *)
(* rules against an input object and raises a ValidationError carrying the *)
(* failures; handleError maps a thrown error to the same {path, message}   *)
(* shape with an ordered list of handler rules.  Both are generators run   *)
(* by _asyncToGenerator: the code between two yields is one atomic step,   *)
(* and every yield is a suspension point.                                  *)
(***************************************************************************)
EXTENDS Integers, Sequences, FiniteSets, TLC

\* Longest validation rule list a caller passes to validateInput.
MaxRules == 3
\* Longest handler rule list a caller passes to handleError.
MaxHandlers == 2

(***************************************************************************)
(* JavaScript values.  Every value is a record [t, s, f]: t is the type    *)
(* tag, s the payload of a primitive, f the set of <<key, value>> pairs of *)
(* an object.                                                              *)
(***************************************************************************)
Undefined == [t |-> "undefined", s |-> "", f |-> {}]
Null == [t |-> "null", s |-> "", f |-> {}]
True == [t |-> "boolean", s |-> "true", f |-> {}]
False == [t |-> "boolean", s |-> "false", f |-> {}]
Str(s) == [t |-> "string", s |-> s, f |-> {}]
Num(s) == [t |-> "number", s |-> s, f |-> {}]
Obj(pairs) == [t |-> "object", s |-> "", f |-> pairs]
\* An array (its elements play no part).
Arr == [t |-> "array", s |-> "", f |-> {}]
\* A class (a constructor function), by name.
Cls(n) == [t |-> "function", s |-> n, f |-> {}]

\* typeof v
TypeOf(v) == IF v.t \in {"null", "array"} THEN "object" ELSE v.t

\* A variant that takes only the boolean true for a pass (=== true).
TruthyStrict(v) == v.t = "boolean" /\ v.s = "true"

\* The truthiness test of `if (!isValid)` and of `&&` on a block's result.
Truthy(v) ==
  CASE v.t = "undefined" -> FALSE
    [] v.t = "null" -> FALSE
    [] v.t = "boolean" -> v.s = "true"
    [] v.t = "number" -> v.s # "0"
    [] v.t = "string" -> v.s # ""
    [] OTHER -> TRUE

(***************************************************************************)
(* Error values.  cls is the class the error was constructed from, name    *)
(* its name property, code its code property, errors the list a            *)
(* ValidationError carries.                                                *)
(***************************************************************************)
NoError == [cls |-> "none", name |-> "", message |-> "", code |-> Undefined, errors |-> <<>>]

\* new Error(message) and its subclasses: no code unless the thrower sets one.
MkError(cls, message, code) ==
  [cls |-> cls, name |-> cls, message |-> message, code |-> code, errors |-> <<>>]

\* A variant whose constructor leaves the status code unset.
ValidationErrorNoCode(errors) ==
  [cls |-> "ValidationError", name |-> "ValidationError",
   message |-> "Validation failed", code |-> Undefined, errors |-> errors]

\* new ValidationError(errors)
ValidationError(errors) ==
  [cls |-> "ValidationError", name |-> "ValidationError",
   message |-> "Validation failed", code |-> Num("422"), errors |-> errors]

\* A variant that takes an error for a validation failure only when its
\* list is non-empty (err.errors.length).
IsValidationErrorWithErrors(err) == err.cls = "ValidationError" /\ Len(err.errors) > 0

\* err instanceof ValidationError
IsValidationError(err) == err.cls = "ValidationError"

\* The outcome of calling a function: it returns v, throws e, or returns a
\* promise that is later fulfilled with v or rejected with e.
Returned(v) == [k |-> "return", v |-> v, e |-> NoError]
Threw(e) == [k |-> "throw", v |-> Undefined, e |-> e]
Fulfilled(v) == [k |-> "fulfilled", v |-> v, e |-> NoError]
Rejected(e) == [k |-> "rejected", v |-> Undefined, e |-> e]
NoOutcome == [k |-> "none", v |-> Undefined, e |-> NoError]

\* A variant that drops rejections: the generator resumes with undefined.
AwaitedSwallow(out) ==
  IF out.k \in {"throw", "rejected"} THEN Fulfilled(Undefined) ELSE Fulfilled(out.v)

\* What `yield x` hands back to the generator once x has settled:
\* Promise.resolve(value).then(next, throw).
Awaited(out) ==
  IF out.k \in {"throw", "rejected"} THEN Rejected(out.e) ELSE Fulfilled(out.v)

\* What the promise of an async function settles to when its body ends
\* with this outcome: resolve(value), or reject(error) for a throw.
AsyncReturn(out) ==
  IF out.k \in {"throw", "rejected"} THEN Rejected(out.e) ELSE Fulfilled(out.v)

\* The result of an engine call (the promise _asyncToGenerator returns).
Pending == [st |-> "pending", kind |-> "none", list |-> <<>>, e |-> NoError]
NotCalled == [st |-> "none", kind |-> "none", list |-> <<>>, e |-> NoError]
ResolvedUndefined == [st |-> "resolved", kind |-> "undefined", list |-> <<>>, e |-> NoError]
ResolvedNull == [st |-> "resolved", kind |-> "null", list |-> <<>>, e |-> NoError]
ResolvedList(l) == [st |-> "resolved", kind |-> "list", list |-> l, e |-> NoError]
RejectedWith(e) == [st |-> "rejected", kind |-> "error", list |-> <<>>, e |-> e]

(***************************************************************************)
(* Caller-supplied functions.                                              *)
(***************************************************************************)
\* options.block of a rule: absent, or a function of (value, runContext).
Blocks == {"undefined", "yes", "no", "throws"}

\* Blocks that look at their first argument: (value) => value === 'cool',
\* its async form, and an async block whose promise rejects.
ValueBlocks == {"equalsCool", "resolvesEqualsCool", "throws", "rejects"}

\* Blocks that use the runContext, their second argument: one sets
\* runContext.seen and answers false, one does the same asynchronously,
\* setting it just before its promise is fulfilled, and one answers
\* whether runContext.seen is set.
ContextBlocks == {"markNo", "markLaterNo", "ifMarked"}

BlockError == MkError("Error", "block failed", Undefined)
NotAFunction == MkError("TypeError", "block is not a function", Undefined)

\* Blocks that return one value whatever they are given: () => value.
ResultBlocks ==
  {"givesFalse", "givesNull", "givesUndefined", "givesZero", "givesEmptyString",
   "givesTrue", "givesOne", "givesText", "givesObject", "givesArray"}

Given(block) ==
  CASE block = "givesFalse" -> False
    [] block = "givesNull" -> Null
    [] block = "givesUndefined" -> Undefined
    [] block = "givesZero" -> Num("0")
    [] block = "givesEmptyString" -> Str("")
    [] block = "givesTrue" -> True
    [] block = "givesOne" -> Num("1")
    [] block = "givesText" -> Str("cool")
    [] block = "givesObject" -> Obj({})
    [] block = "givesArray" -> Arr

\* block(arg, runContext)
CallBlock(block, arg, ctx) ==
  CASE block = "yes" -> Returned(True)
    [] block = "no" -> Returned(False)
    [] block = "throws" -> Threw(BlockError)
    [] block = "equalsCool" -> Returned(IF arg = Str("cool") THEN True ELSE False)
    [] block = "resolvesEqualsCool" -> Fulfilled(IF arg = Str("cool") THEN True ELSE False)
    [] block = "rejects" -> Rejected(BlockError)
    [] block = "markNo" -> Returned(False)
    [] block = "markLaterNo" -> Fulfilled(False)
    [] block = "ifMarked" ->
         Returned(IF <<"seen", True>> \in ctx.f THEN True ELSE False)
    [] block \in ResultBlocks -> Returned(Given(block))
    [] OTHER -> Threw(NotAFunction)

\* A variant that takes the whole path for one key (input[path]).
SegmentsUnsplit(path) == <<path>>

\* runContext.seen = true
Marked(ctx) == Obj({p \in ctx.f : p[1] # "seen"} \cup {<<"seen", True>>})

\* The runContext once the block has been called, and once the promise of
\* its result has settled: it is one object, which the blocks mutate.
MutatedAtCall(block, ctx) == IF block = "markNo" THEN Marked(ctx) ELSE ctx
MutatedAtSettle(block, ctx) == IF block = "markLaterNo" THEN Marked(ctx) ELSE ctx

\* The dotted path of a rule, split on ".".
Segments(path) ==
  CASE path = "word" -> <<"word">>
    [] path = "user.word" -> <<"user", "word">>
    [] path = "a.b" -> <<"a", "b">>
    [] OTHER -> <<path>>

\* object[key]
Member(obj, key) ==
  LET hits == {p \in obj.f : p[1] = key}
  IN IF obj.t # "object" \/ hits = {} THEN Undefined ELSE (CHOOSE p \in hits : TRUE)[2]

RECURSIVE Descend(_, _)
Descend(obj, segs) ==
  IF segs = <<>> THEN obj
  ELSE LET next == Member(obj, Head(segs))
       IN IF next.t \in {"undefined", "null"} THEN Null ELSE Descend(next, Tail(segs))

\* dottie.get(input, path, null)
Get(input, path) == Descend(input, Segments(path))

(***************************************************************************)
(* The validator registry: this.validators, a plain object from validator  *)
(* name to predicate function.  The constructor installs the built-ins,    *)
(* each named after its module; isCool is the custom validator of the      *)
(* example and the README, installed by assignment.                        *)
(***************************************************************************)
BuiltIns ==
  {"contains", "isAbsent", "isBase64", "isByteLength", "isCreditCard", "isDate",
   "isEmail", "isExcluded", "isFQDN", "isHexadecimal", "isHexColor", "isIncluded",
   "isIP", "isISBN", "isISIN", "isJSON", "isLength", "isLowercase", "isMACAddress",
   "isMongoId", "isPresent", "isUppercase", "isURL", "isUUID", "isValid", "matches"}

ValidatorNames == BuiltIns \cup {"isCool"}

\* Functions a caller installs as approval.validators.isCool: one that
\* returns value === 'cool', and the README's, whose body reads the
\* undeclared variable str and so throws a ReferenceError when called.
CustomValidators == {"isCool", "isCoolReadme"}

ReferenceError == MkError("ReferenceError", "str is not defined", Undefined)

\* A variant with a check of its own: a missing value is never valid.
IsValidPresent(value, options, ctx) ==
  IF value = Null THEN Fulfilled(False) ELSE AsyncReturn(CallBlock(options.block, value, ctx))

\* validators/isValid: an async function that returns what
\* options.block(value, runContext) yields once awaited; whatever the block
\* throws rejects the promise isValid returns.
IsValid(value, options, ctx) == AsyncReturn(CallBlock(options.block, value, ctx))

\* validator.isFQDN(str, {require_tld, ...}) of the validator library, on
\* the strings the inputs hold: a name without a dot is a domain name only
\* when no top-level domain is required.
LibIsFQDN(str, requireTld) ==
  CASE str = "example.com" -> TRUE
    [] str \in {"cool", "John"} -> ~requireTld
    [] OTHER -> FALSE

\* validator.isURL(str, {require_protocol, ...}) of the validator library.
LibIsURL(str, requireProtocol) == str = "example.com" /\ ~requireProtocol

TypeError == MkError("TypeError", "This library (validator.js) validates strings only", Undefined)

\* A variant without the typeof guard, handing every value to the library.
IsFQDNUnguarded(str, options) ==
  IF str.t = "string"
  THEN Returned(IF LibIsFQDN(str.s, Truthy(IF options.requireTld = Undefined THEN True
                                           ELSE options.requireTld))
                THEN True ELSE False)
  ELSE Threw(TypeError)

\* validators/isFQDN: requireTld is true unless the options set it; what is
\* no string is not valid.
IsFQDN(str, options) ==
  IF TypeOf(str) = "string"
  THEN Returned(IF LibIsFQDN(str.s, Truthy(IF options.requireTld = Undefined THEN True
                                           ELSE options.requireTld))
                THEN True ELSE False)
  ELSE Returned(False)

\* validators/isURL: requireProtocol is true unless the options set it.
IsURL(str, options) ==
  IF TypeOf(str) = "string"
  THEN Returned(IF LibIsURL(str.s, Truthy(IF options.requireProtocol = Undefined THEN True
                                          ELSE options.requireProtocol))
                THEN True ELSE False)
  ELSE Returned(False)

\* The number of characters of the strings the inputs hold.
StrLen(str) ==
  CASE str = "" -> 0
    [] str \in {"John", "cool"} -> 4
    [] str = "John Smith" -> 10
    [] str = "example.com" -> 11
    [] OTHER -> 0

\* A variant whose range excludes its two ends.
IsLengthOpen(str, options) ==
  Returned(IF /\ TypeOf(str) = "string"
              /\ StrLen(str.s) > options.min
              /\ StrLen(str.s) < options.max
           THEN True ELSE False)

\* validators/isLength: a string whose length lies in [min, max].
IsLength(str, options) ==
  Returned(IF /\ TypeOf(str) = "string"
              /\ StrLen(str.s) >= options.min
              /\ StrLen(str.s) <= options.max
           THEN True ELSE False)

\* validator(value, validation.options || {}, options || {})
CallValidator(fn, value, options, ctx) ==
  CASE fn = "isValid" -> IsValid(value, options, ctx)
    [] fn = "isFQDN" -> IsFQDN(value, options)
    [] fn = "isURL" -> IsURL(value, options)
    [] fn = "isLength" -> IsLength(value, options)
    [] fn = "isCool" -> Returned(IF value = Str("cool") THEN True ELSE False)
    [] OTHER -> Threw(ReferenceError)

\* A variant that reports an unknown validator as a validation failure.
UnknownValidatorAsValidationError(name) ==
  [cls |-> "ValidationError", name |-> "ValidationError",
   message |-> "Validation failed", code |-> Num("422"), errors |-> <<>>]

UnknownValidator(name) ==
  MkError("Error",
          CASE name = "isCool" -> "Unknown validator isCool"
            [] name = "isValid" -> "Unknown validator isValid"
            [] name = "isFQDN" -> "Unknown validator isFQDN"
            [] name = "isURL" -> "Unknown validator isURL"
            [] name = "isLength" -> "Unknown validator isLength"
            [] OTHER -> "Unknown validator",
          Undefined)

(***************************************************************************)
(* What callers pass in.                                                   *)
(***************************************************************************)
BoundedSeq(S, n) == UNION {[1..k -> S] : k \in 0..n}

\* {path, message} of a rule.
Labels == {<<"word", "must be cool">>, <<"user.word", "is not cool">>}

\* A validation rule {path, validator, options, message}; a rule without
\* options has options.block undefined (validation.options || {}).  A rule
\* for isValid carries the block its documentation requires.
ValidationRules ==
  {[path |-> l[1], message |-> l[2], validator |-> "isValid", options |-> [block |-> b]] :
     l \in Labels, b \in Blocks \ {"undefined"}}
  \cup
  {[path |-> l[1], message |-> l[2], validator |-> "isCool", options |-> [block |-> "undefined"]] :
     l \in Labels}

Inputs ==
  {Obj({}),
   Obj({<<"word", Str("cool")>>}),
   Obj({<<"user", Obj({<<"word", Str("cool")>>})>>})}

\* The rule lists callers pass to validateInput.
ValidationLists == BoundedSeq(ValidationRules, MaxRules)

\* The runContext (third argument) of a call: empty unless supplied.
EmptyContext == Obj({})

\* The caller that runs one call at a time.
CallIds == {"c1"}

\* The requests a server has in hand together: each is a caller of its own
\* on the one engine instance.
ConcurrentCallIds == {"c1", "c2"}

VARIABLES
  validators,   \* this.validators: validator name -> function, "undefined" if absent
  vcalls,       \* the validateInput call of each caller
  caught,       \* the error each caller's catch block holds
  hcalls        \* the handleError call of each caller

vars == <<validators, vcalls, caught, hcalls>>

(***************************************************************************)
(* validateInput                                                           *)
(***************************************************************************)
IdleValidate ==
  [pc |-> "idle", input |-> Obj({}), validations |-> <<>>, options |-> EmptyContext,
   i |-> 0, errors |-> <<>>, pending |-> NoOutcome, result |-> NotCalled, trace |-> <<>>]

\* A variant that raises whatever the list holds (errors.length >= 0).
ShowValidationErrorAlways(errors) == Rejected(ValidationError(errors))

\* showValidationError(errors): an async function, so the throw rejects the
\* promise it returns.
ShowValidationError(errors) ==
  IF Len(errors) > 0 THEN Rejected(ValidationError(errors)) ELSE Fulfilled(Undefined)

\* A variant that resolves names in the table the constructor required,
\* whatever the registry holds now.
LookupBuiltIn(reg, validatorName) ==
  IF validatorName \in BuiltIns THEN validatorName ELSE "undefined"

\* let validator = this.validators[validatorName]
Lookup(reg, validatorName) == reg[validatorName]

\* The block a validation rule hands to its validator, if any.
BlockOf(validation) ==
  IF validation.validator = "isValid" THEN validation.options.block ELSE "undefined"

\* A variant that hands every predicate an object of its own.
RunContextFresh(call) == EmptyContext

\* options: the third argument of the call, {} when the caller passes
\* none; the same object goes to every predicate and block of the call.
RunContext(call) == call.options

\* A variant that leaves the loop at the first failure collected.
LoopDoneAtFailure(call, i) == i > Len(call.validations) \/ Len(call.errors) > 0

\* for (let validation of validations): the list is exhausted.
LoopDone(call, i) == i > Len(call.validations)

\* The body of validateInput from the head of the loop at rule i up to the
\* next yield, or to the end of the call when the body throws.
EvaluateRule(call, i, reg) ==
  IF LoopDone(call, i)
  THEN [call EXCEPT !.pc = "await_show", !.i = i,
                    !.pending = ShowValidationError(call.errors)]
  ELSE LET validation == call.validations[i]
           validator == Lookup(reg, validation.validator)
           value == Get(call.input, validation.path)
           ctx == RunContext(call)
           out == CallValidator(validator, value, validation.options, ctx)
           after == MutatedAtCall(BlockOf(validation), call.options)
       IN IF validator = "undefined"
          THEN [call EXCEPT !.pc = "done", !.i = i, !.pending = NoOutcome,
                            !.result = RejectedWith(UnknownValidator(validation.validator)),
                            !.trace = Append(@, [rule |-> i, found |-> FALSE, value |-> Undefined,
                                                 ctx |-> ctx, out |-> NoOutcome])]
          ELSE IF out.k = "throw"
          THEN [call EXCEPT !.pc = "done", !.i = i, !.pending = NoOutcome,
                            !.options = after,
                            !.result = RejectedWith(out.e),
                            !.trace = Append(@, [rule |-> i, found |-> TRUE, value |-> value,
                                                 ctx |-> ctx, out |-> out])]
          ELSE [call EXCEPT !.pc = "await_validator", !.i = i, !.pending = out,
                            !.options = after,
                            !.trace = Append(@, [rule |-> i, found |-> TRUE, value |-> value,
                                                 ctx |-> ctx, out |-> out])]

\* A variant that adds each failure at the front of the list (unshift).
PushIfInvalidFront(errors, validation, isValid) ==
  IF ~Truthy(isValid)
  THEN <<[path |-> validation.path, message |-> validation.message]>> \o errors
  ELSE errors

\* errors.push({path, message}) when the awaited result is falsy.
PushIfInvalid(errors, validation, isValid) ==
  IF ~Truthy(isValid)
  THEN Append(errors, [path |-> validation.path, message |-> validation.message])
  ELSE errors

\* The caller is outside its try/catch: no call of its own is running.
AtRest(c) == vcalls[c].pc = "idle" /\ hcalls[c].pc = "idle" /\ caught[c].origin = "none"

\* A variant that keeps one errors list on the engine instance.
ErrorsOfInstance(c) == vcalls["c1"].errors

\* let errors = []: the list of the call itself.
ErrorsOf(c) == vcalls[c].errors

\* approval.validateInput(input, validations): runs up to the first yield.
ValidateInput(c, input, validations) ==
  /\ AtRest(c)
  /\ vcalls' = [vcalls EXCEPT ![c] =
                  EvaluateRule([IdleValidate EXCEPT !.input = input,
                                                    !.validations = validations,
                                                    !.result = Pending],
                               1, validators)]
  /\ UNCHANGED <<validators, caught, hcalls>>

\* The promise validateInput waits on has settled: step("next") or
\* step("throw") resumes the generator up to its next yield.
ResumeValidateInput(c) ==
  LET call == vcalls[c]
      got == Awaited(call.pending)
      settled == IF call.pc = "await_validator"
                 THEN MutatedAtSettle(BlockOf(call.validations[call.i]), call.options)
                 ELSE call.options
  IN /\ call.pc \in {"await_validator", "await_show"}
     /\ vcalls' = [vcalls EXCEPT ![c] =
          IF got.k = "rejected"
          THEN [call EXCEPT !.pc = "done", !.pending = NoOutcome, !.options = settled,
                            !.result = RejectedWith(got.e)]
          ELSE IF call.pc = "await_show"
          THEN [call EXCEPT !.pc = "done", !.pending = NoOutcome,
                            !.result = ResolvedUndefined]
          ELSE EvaluateRule(
                 [call EXCEPT !.errors = PushIfInvalid(ErrorsOf(c), call.validations[call.i],
                                                       got.v),
                              !.options = settled],
                 call.i + 1, validators)]
     /\ UNCHANGED <<validators, caught, hcalls>>

\* approval.validators.isCool = fn
RegisterValidator(name, fn) ==
  /\ validators[name] # fn
  /\ validators' = [validators EXCEPT ![name] = fn]
  /\ UNCHANGED <<vcalls, caught, hcalls>>

\* delete approval.validators.isCool
UnregisterValidator(name) ==
  /\ validators[name] # "undefined"
  /\ validators' = [validators EXCEPT ![name] = "undefined"]
  /\ UNCHANGED <<vcalls, caught, hcalls>>

(***************************************************************************)
(* handleError                                                             *)
(***************************************************************************)
\* The classes an error of class cls is an instance of.
ClassChain(cls) ==
  IF cls \in {"none", "Error"} THEN {cls} ELSE {cls, "Error"}

\* err instanceof ref
InstanceOf(err, ref) == ref.s \in ClassChain(err.cls)

\* A handler rule {path, error, options, message}; a rule without options
\* has code and block undefined (handlerCandidate.options || {}).  The error
\* field is the name of an error kind or an error class.
HandlerNames == {"MongoError"}
HandlerClasses == {"Error"}
HandlerCodes == {Undefined, Num("11000")}

HandlerLabels == {<<"system", "fake error">>, <<"firstName", "is already taken">>}

HandlerRules ==
  {[path |-> l[1], message |-> l[2], error |-> Str(n), options |-> [code |-> k, block |-> b]] :
     l \in HandlerLabels, n \in HandlerNames, k \in HandlerCodes, b \in Blocks}
  \cup
  {[path |-> "system", message |-> "fake error", error |-> Cls(n),
    options |-> [code |-> Undefined, block |-> b]] :
     n \in HandlerClasses, b \in {"undefined", "yes"}}

\* Errors the application code of a try block throws.
AppErrors ==
  {MkError("Error", "something went wrong", Undefined),
   MkError("MongoError", "topology was destroyed", Undefined),
   MkError("MongoError", "E11000 duplicate key", Num("11000")),
   MkError("MongoError", "document failed validation", Num("121")),
   ValidationError(<<>>)}

\* The rule lists callers pass to handleError.
HandlerLists == BoundedSeq(HandlerRules, MaxHandlers)

IdleHandle ==
  [pc |-> "idle", err |-> NoError, handlers |-> <<>>, supplied |-> TRUE, options |-> EmptyContext,
   i |-> 0, pending |-> NoOutcome, result |-> NotCalled, trace |-> <<>>]

\* // name
KindTest(handlerCandidate, err) ==
  \/ handlerCandidate.error = Str(err.name)
  \/ TypeOf(handlerCandidate.error) = "object" /\ InstanceOf(err, handlerCandidate.error)

\* A variant that lets a rule with a code match an error without one.
CodeTestLoose(handlerOptions, err) ==
  \/ TypeOf(handlerOptions.code) = "undefined"
  \/ TypeOf(err.code) = "undefined"
  \/ handlerOptions.code = err.code

\* // code
CodeTest(handlerOptions, err) ==
  \/ TypeOf(handlerOptions.code) = "undefined"
  \/ TypeOf(handlerOptions.code) # "undefined" /\ handlerOptions.code = err.code

\* A variant that reports every rule up to the match, as validation does.
MatchedAll(call, i) ==
  [call EXCEPT !.pc = "done", !.i = i, !.pending = NoOutcome,
               !.result = ResolvedList([k \in 1..i |->
                                          [path |-> call.handlers[k].path,
                                           message |-> call.handlers[k].message]])]

\* handler = handlerCandidate; break; ... return [{path, message}]
Matched(call, i) ==
  [call EXCEPT !.pc = "done", !.i = i, !.pending = NoOutcome,
               !.result = ResolvedList(<<[path |-> call.handlers[i].path,
                                          message |-> call.handlers[i].message]>>)]

\* A variant that treats an error no rule matched as a failure of its own.
UnhandledThrows(call, i) ==
  [call EXCEPT !.pc = "done", !.i = i, !.pending = NoOutcome,
               !.result = RejectedWith(MkError("Error", "Unhandled error", Undefined))]

\* A variant that returns an empty list when nothing matched.
UnhandledEmptyList(call, i) ==
  [call EXCEPT !.pc = "done", !.i = i, !.pending = NoOutcome, !.result = ResolvedList(<<>>)]

\* if (handler) {...} else { return null; }
Unhandled(call, i) ==
  [call EXCEPT !.pc = "done", !.i = i, !.pending = NoOutcome, !.result = ResolvedNull]

\* The loop of handleError from rule i up to the next yield or to the end
\* of the call.
RECURSIVE Scan(_, _)
Scan(call, i) ==
  IF i > Len(call.handlers)
  THEN Unhandled(call, i)
  ELSE LET handlerCandidate == call.handlers[i]
           handlerOptions == handlerCandidate.options
           kind == KindTest(handlerCandidate, call.err)
           code == kind /\ CodeTest(handlerOptions, call.err)
           invoked == code /\ handlerOptions.block # "undefined"
           ctx == RunContext(call)
           out == IF invoked THEN CallBlock(handlerOptions.block, call.err, ctx)
                  ELSE NoOutcome
           seen == [call EXCEPT !.trace = Append(@, [rule |-> i, kind |-> kind, code |-> code,
                                                     invoked |-> invoked, ctx |-> ctx,
                                                     out |-> out]),
                                !.options = IF invoked
                                            THEN MutatedAtCall(handlerOptions.block, @)
                                            ELSE @]
       IN IF ~code THEN Scan(seen, i + 1)
          ELSE IF ~invoked THEN Matched(seen, i)
          ELSE IF out.k = "throw"
          THEN [seen EXCEPT !.pc = "done", !.i = i, !.pending = NoOutcome,
                            !.result = RejectedWith(out.e)]
          ELSE [seen EXCEPT !.pc = "await_block", !.i = i, !.pending = out]

NotIterable == MkError("TypeError", "undefined is not iterable", Undefined)

\* A variant whose handlers argument defaults to an empty list.
CanIterateDefaulted(call) == TRUE

\* for (let handlerCandidate of handlers): the loop can start only on a
\* list; handlers has no default, and undefined has no iterator.
CanIterate(call) == call.supplied

\* approval.handleError(err, handlers): runs up to the first yield.
HandleError(c, supplied, handlers) ==
  LET call == [IdleHandle EXCEPT !.err = caught[c].e, !.handlers = handlers,
                                 !.supplied = supplied, !.result = Pending]
  IN /\ caught[c].origin # "none"
     /\ hcalls[c].pc = "idle"
     /\ supplied \/ handlers = <<>>
     /\ hcalls' = [hcalls EXCEPT ![c] =
          IF IsValidationError(call.err)
          THEN [call EXCEPT !.pc = "done", !.result = ResolvedList(call.err.errors)]
          ELSE IF ~CanIterate(call)
          THEN [call EXCEPT !.pc = "done", !.result = RejectedWith(NotIterable)]
          ELSE Scan(call, 1)]
     /\ UNCHANGED <<validators, vcalls, caught>>

\* The block's promise has settled: the generator resumes inside the loop.
ResumeHandleError(c) ==
  LET waiting == hcalls[c]
      got == Awaited(waiting.pending)
      call == IF waiting.pc = "await_block"
              THEN [waiting EXCEPT !.options =
                      MutatedAtSettle(waiting.handlers[waiting.i].options.block, @)]
              ELSE waiting
  IN /\ waiting.pc = "await_block"
     /\ hcalls' = [hcalls EXCEPT ![c] =
          IF got.k = "rejected"
          THEN [call EXCEPT !.pc = "done", !.pending = NoOutcome,
                            !.result = RejectedWith(got.e)]
          ELSE IF Truthy(got.v) THEN Matched(call, call.i)
          ELSE Scan(call, call.i + 1)]
     /\ UNCHANGED <<validators, vcalls, caught>>

(***************************************************************************)
(* The caller: try { await validateInput(...); ... } catch (err)           *)
(* { errors = await handleError(err, handlers); ... }                      *)
(***************************************************************************)
NothingCaught == [e |-> NoError, origin |-> "none", failing |-> <<>>]

\* The {path, message} entries of the rules whose predicate a call saw
\* yield false, in the order the call evaluated them.
RECURSIVE FailingEntries(_, _)
FailingEntries(validations, trace) ==
  IF trace = <<>> THEN <<>>
  ELSE LET t == Head(trace)
           rest == FailingEntries(validations, Tail(trace))
       IN IF t.found /\ t.out.k \in {"return", "fulfilled"} /\ t.out.v = False
          THEN <<[path |-> validations[t.rule].path,
                  message |-> validations[t.rule].message]>> \o rest
          ELSE rest

\* validateInput resolved: the try block goes on.
Continue(c) ==
  /\ vcalls[c].pc = "done"
  /\ vcalls[c].result.st = "resolved"
  /\ vcalls' = [vcalls EXCEPT ![c] = IdleValidate]
  /\ UNCHANGED <<validators, caught, hcalls>>

\* validateInput rejected: the catch block receives the error.
Catch(c) ==
  /\ vcalls[c].pc = "done"
  /\ vcalls[c].result.st = "rejected"
  /\ caught' = [caught EXCEPT ![c] =
                  [e |-> vcalls[c].result.e, origin |-> "validateInput",
                   failing |-> FailingEntries(vcalls[c].validations, vcalls[c].trace)]]
  /\ vcalls' = [vcalls EXCEPT ![c] = IdleValidate]
  /\ UNCHANGED <<validators, hcalls>>

\* Other code of the try block throws.
Throw(c, e) ==
  /\ AtRest(c)
  /\ caught' = [caught EXCEPT ![c] = [e |-> e, origin |-> "app", failing |-> <<>>]]
  /\ UNCHANGED <<validators, vcalls, hcalls>>

\* if (err instanceof ValidationError) return err.errors: the caller gets
\* the array the error holds, not a copy of it; the list a matched handler
\* gives is an array made for the return.
ReturnsErrorsOfErr(call) ==
  call.pc = "done" /\ call.result.kind = "list" /\ IsValidationError(call.err)

\* What a caller adds to the list it got.
CallerEntry == [path |-> "request", message |-> "added by the caller"]

RECURSIVE Holds(_, _)
Holds(list, entry) ==
  list # <<>> /\ (Head(list) = entry \/ Holds(Tail(list), entry))

\* The catch block changes the list handleError returned: errors.push(entry).
\* Every holder of that array sees the change.
ChangeReturnedList(c, entry) ==
  LET call == hcalls[c]
      list == Append(call.result.list, entry)
  IN /\ call.pc = "done"
     /\ call.result.kind = "list"
     /\ ~Holds(call.result.list, entry)
     /\ hcalls' = [hcalls EXCEPT ![c] =
          IF ReturnsErrorsOfErr(call)
          THEN [call EXCEPT !.result = ResolvedList(list), !.err.errors = list]
          ELSE [call EXCEPT !.result = ResolvedList(list)]]
     /\ caught' = IF ReturnsErrorsOfErr(call)
                  THEN [caught EXCEPT ![c].e.errors = list]
                  ELSE caught
     /\ UNCHANGED <<validators, vcalls>>

\* handleError has settled: the catch block ends.
Respond(c) ==
  /\ hcalls[c].pc = "done"
  /\ hcalls' = [hcalls EXCEPT ![c] = IdleHandle]
  /\ caught' = [caught EXCEPT ![c] = NothingCaught]
  /\ UNCHANGED <<validators, vcalls>>

Init ==
  /\ validators = [n \in ValidatorNames |-> IF n \in BuiltIns THEN n ELSE "undefined"]
  /\ vcalls = [c \in ConcurrentCallIds |-> IdleValidate]
  /\ caught = [c \in ConcurrentCallIds |-> NothingCaught]
  /\ hcalls = [c \in ConcurrentCallIds |-> IdleHandle]

Next ==
  \/ \E c \in CallIds :
       /\ \A d \in CallIds : AtRest(d)
       /\ \E input \in Inputs, validations \in ValidationLists :
            ValidateInput(c, input, validations)
  \/ \E c \in CallIds : ResumeValidateInput(c)
  \/ \E fn \in CustomValidators : RegisterValidator("isCool", fn)
  \/ UnregisterValidator("isCool")
  \/ \E c \in CallIds : Continue(c)
  \/ \E c \in CallIds : Catch(c)
  \/ \E c \in CallIds, e \in AppErrors : Throw(c, e)
  \/ \E c \in CallIds :
       /\ hcalls[c].pc = "idle"
       /\ caught[c].origin # "none"
       /\ \E handlers \in HandlerLists : HandleError(c, TRUE, handlers)
  \/ \E c \in CallIds : HandleError(c, FALSE, <<>>)
  \/ \E c \in CallIds : ResumeHandleError(c)
  \/ \E c \in CallIds : Respond(c)

Spec == Init /\ [][Next]_vars

(***************************************************************************)
(* validateInput over values of every type, with the built-in validators   *)
(* of a fresh engine, as the example's request handler calls it: the error *)
(* it raises goes to handleError(err), without a handler list.             *)
(***************************************************************************)
\* Longest rule list of these calls.
MaxTypedRules == 2

\* What an input holds under a key.
Values ==
  {Undefined, Null, Num("1"), True, Obj({}), Arr,
   Str("John"), Str("John Smith"), Str("cool"), Str("example.com")}

NonStrings == {v \in Values : v.t # "string"}

TypedInputs ==
  {Obj({})}
  \cup {Obj({<<"name", v>>}) : v \in Values}
  \cup {Obj({<<"a", Obj({<<"b", v>>})>>}) : v \in {Num("1"), Str("cool")}}
  \cup {Obj({<<"a", v>>}) : v \in {Null, Num("1"), Str("cool")}}

TypedLabels == {<<"name", "must be between 5 and 10">>, <<"a.b", "is not valid">>}

FormatValidators == {"isFQDN", "isURL"}

\* The options of a rule, by validator.
OptionsOf(validator) ==
  CASE validator = "isFQDN" -> {[requireTld |-> Undefined], [requireTld |-> False]}
    [] validator = "isURL" -> {[requireProtocol |-> Undefined], [requireProtocol |-> False]}
    [] validator = "isLength" -> {[min |-> 3, max |-> 5], [min |-> 4, max |-> 10]}
    [] validator = "isValid" -> {[block |-> b] : b \in ValueBlocks}
    [] OTHER -> {[block |-> "undefined"]}

TypedRules ==
  {[path |-> l[1], message |-> l[2], validator |-> r[1], options |-> r[2]] :
     l \in TypedLabels,
     r \in UNION {{<<v, o>> : o \in OptionsOf(v)} :
                    v \in {"isFQDN", "isURL", "isLength", "isValid"}}}

TypedLists == BoundedSeq(TypedRules, MaxTypedRules)

NextValidators ==
  \/ \E c \in CallIds :
       /\ \A d \in CallIds : AtRest(d)
       /\ \E input \in TypedInputs, validations \in TypedLists :
            ValidateInput(c, input, validations)
  \/ \E c \in CallIds : ResumeValidateInput(c)
  \/ \E c \in CallIds : Continue(c)
  \/ \E c \in CallIds : Catch(c)
  \/ \E c \in CallIds : HandleError(c, FALSE, <<>>)
  \/ \E c \in CallIds : Respond(c)

SpecValidators == Init /\ [][NextValidators]_vars

(***************************************************************************)
(* Both engines with blocks that read and write the runContext.            *)
(***************************************************************************)
ContextRules ==
  {[path |-> "word", message |-> "must be cool", validator |-> "isValid",
    options |-> [block |-> b]] : b \in ContextBlocks}

ContextLists == BoundedSeq(ContextRules, MaxRules)

ContextHandlers ==
  {[path |-> "system", message |-> "fake error", error |-> Str("MongoError"),
    options |-> [code |-> Undefined, block |-> b]] : b \in ContextBlocks}

ContextHandlerLists == BoundedSeq(ContextHandlers, MaxHandlers + 1)

NextContext ==
  \/ \E c \in CallIds :
       /\ \A d \in CallIds : AtRest(d)
       /\ \E validations \in ContextLists : ValidateInput(c, Obj({}), validations)
  \/ \E c \in CallIds : ResumeValidateInput(c)
  \/ \E c \in CallIds : Continue(c)
  \/ \E c \in CallIds : Catch(c)
  \/ \E c \in CallIds : Throw(c, MkError("MongoError", "topology was destroyed", Undefined))
  \/ \E c \in CallIds :
       /\ hcalls[c].pc = "idle"
       /\ caught[c].origin # "none"
       /\ \E handlers \in ContextHandlerLists : HandleError(c, TRUE, handlers)
  \/ \E c \in CallIds : ResumeHandleError(c)
  \/ \E c \in CallIds : Respond(c)

SpecContext == Init /\ [][NextContext]_vars

(***************************************************************************)
(* Two requests on one engine instance: each calls validateInput with its  *)
(* own input and rules while the other's call may be waiting at a yield,   *)
(* and hands the error it catches to handleError(err).                     *)
(***************************************************************************)
\* Longest rule list of these calls.
MaxConcurrentRules == 2

ConcurrentBlocks == {"resolvesEqualsCool", "rejects", "markLaterNo", "ifMarked"}

ConcurrentRules ==
  {[path |-> "word", message |-> "must be cool", validator |-> "isValid",
    options |-> [block |-> b]] : b \in ConcurrentBlocks \ {"ifMarked"}}
  \cup
  {[path |-> "user.word", message |-> "is not cool", validator |-> "isValid",
    options |-> [block |-> "ifMarked"]]}

ConcurrentInputs == {i \in Inputs : i # Obj({})}

ConcurrentLists == BoundedSeq(ConcurrentRules, MaxConcurrentRules)

NextConcurrent ==
  \/ \E c \in ConcurrentCallIds :
       /\ AtRest(c)
       /\ \E input \in ConcurrentInputs, validations \in ConcurrentLists :
            ValidateInput(c, input, validations)
  \/ \E c \in ConcurrentCallIds : ResumeValidateInput(c)
  \/ \E c \in ConcurrentCallIds : Continue(c)
  \/ \E c \in ConcurrentCallIds : Catch(c)
  \/ \E c \in ConcurrentCallIds : HandleError(c, FALSE, <<>>)
  \/ \E c \in ConcurrentCallIds : Respond(c)

SpecConcurrent == Init /\ [][NextConcurrent]_vars

(***************************************************************************)
(* The requests above, with catch blocks that also handle errors of other  *)
(* code through a handler list and change the list handleError gave them   *)
(* before they respond.                                                    *)
(***************************************************************************)
CallerHandlerLists ==
  {<<>>,
   <<[path |-> "system", message |-> "fake error", error |-> Str("MongoError"),
      options |-> [code |-> Undefined, block |-> "undefined"]]>>}

NextCaller ==
  \/ \E c \in ConcurrentCallIds :
       /\ AtRest(c)
       /\ \E input \in ConcurrentInputs, validations \in ConcurrentLists :
            ValidateInput(c, input, validations)
  \/ \E c \in ConcurrentCallIds : ResumeValidateInput(c)
  \/ \E c \in ConcurrentCallIds : Continue(c)
  \/ \E c \in ConcurrentCallIds : Catch(c)
  \/ \E c \in ConcurrentCallIds :
       Throw(c, MkError("MongoError", "topology was destroyed", Undefined))
  \/ \E c \in ConcurrentCallIds, handlers \in CallerHandlerLists :
       HandleError(c, TRUE, handlers)
  \/ \E c \in ConcurrentCallIds : ChangeReturnedList(c, CallerEntry)
  \/ \E c \in ConcurrentCallIds : Respond(c)

SpecCaller == Init /\ [][NextCaller]_vars

(***************************************************************************)
(* Both engines with predicates and blocks that answer with values of any  *)
(* type.                                                                   *)
(***************************************************************************)
\* Longest rule list and handler list of these calls.
MaxResultRules == 2

ResultRules ==
  {[path |-> l[1], message |-> l[2], validator |-> "isValid", options |-> [block |-> b]] :
     l \in Labels, b \in ResultBlocks}

ResultLists == BoundedSeq(ResultRules, MaxResultRules)

ResultHandlers ==
  {[path |-> l[1], message |-> l[2], error |-> Str("MongoError"),
    options |-> [code |-> Undefined, block |-> b]] :
     l \in HandlerLabels, b \in ResultBlocks}

ResultHandlerLists == BoundedSeq(ResultHandlers, MaxResultRules)

NextResults ==
  \/ \E c \in CallIds :
       /\ AtRest(c)
       /\ \E validations \in ResultLists : ValidateInput(c, Obj({}), validations)
  \/ \E c \in CallIds : ResumeValidateInput(c)
  \/ \E c \in CallIds : Continue(c)
  \/ \E c \in CallIds : Catch(c)
  \/ \E c \in CallIds : Throw(c, MkError("MongoError", "topology was destroyed", Undefined))
  \/ \E c \in CallIds :
       /\ hcalls[c].pc = "idle"
       /\ caught[c].origin # "none"
       /\ \E handlers \in ResultHandlerLists : HandleError(c, TRUE, handlers)
  \/ \E c \in CallIds : ResumeHandleError(c)
  \/ \E c \in CallIds : Respond(c)

SpecResults == Init /\ [][NextResults]_vars

(***************************************************************************)
(* Properties.  A finished call is one whose pc is "done"; its trace lists *)
(* the rules it reached, with the registry lookup and the predicate        *)
(* outcome of each.                                                        *)
(***************************************************************************)
Entry(rule) == [path |-> rule.path, message |-> rule.message]

\* Rule j of the call was reached, its validator was found and the
\* predicate's result, once awaited, was the value v.
Yielded(call, j, v) ==
  \E k \in 1..Len(call.trace) :
    /\ call.trace[k].rule = j
    /\ call.trace[k].found
    /\ call.trace[k].out.k \in {"return", "fulfilled"}
    /\ call.trace[k].out.v = v

\* Every validator of the call resolved: each rule was reached and its
\* predicate handed back a boolean.
AllResolved(call) ==
  \A j \in 1..Len(call.validations) : Yielded(call, j, True) \/ Yielded(call, j, False)

\* The entries of the rules j..n that yielded false, in rule-list order.
RECURSIVE FailuresFrom(_, _)
FailuresFrom(call, j) ==
  IF j > Len(call.validations) THEN <<>>
  ELSE (IF Yielded(call, j, False) THEN <<Entry(call.validations[j])>> ELSE <<>>)
       \o FailuresFrom(call, j + 1)

\* C1: when every validator of a validateInput call resolves and at least
\* one predicate yields false, the call raises a failure whose errors list
\* is exactly the {path, message} entries of the failing rules, in rule-list
\* order: one entry per failing rule, none for a passing rule.
C1_ErrorsAreTheFailingRules ==
  \A c \in CallIds :
    LET call == vcalls[c]
    IN (/\ call.pc = "done"
        /\ AllResolved(call)
        /\ \E j \in 1..Len(call.validations) : Yielded(call, j, False))
       => /\ call.result.st = "rejected"
          /\ call.result.e.errors = FailuresFrom(call, 1)
          /\ Len(call.result.e.errors) =
               Cardinality({j \in 1..Len(call.validations) : Yielded(call, j, False)})
          /\ \A k \in 1..Len(call.result.e.errors) :
               DOMAIN call.result.e.errors[k] = {"path", "message"}

\* A finished call of three rules: the first and the third fail, with
\* different paths, and the second passes.
C1_Witness ==
  \E c \in CallIds :
    LET call == vcalls[c]
    IN /\ call.pc = "done"
       /\ Len(call.validations) = 3
       /\ AllResolved(call)
       /\ Yielded(call, 1, False) /\ Yielded(call, 2, True) /\ Yielded(call, 3, False)
       /\ call.validations[1].path # call.validations[3].path
       /\ Len(call.result.e.errors) = 2

\* C2: when every validator of a validateInput call resolves and every
\* predicate yields true (the empty rule list included), the call completes
\* normally: nothing is raised and the result is undefined.
C2_AllPassingIsSilent ==
  \A c \in CallIds :
    LET call == vcalls[c]
    IN (/\ call.pc = "done"
        /\ \A j \in 1..Len(call.validations) : Yielded(call, j, True))
       => /\ call.result.st = "resolved"
          /\ call.result.kind = "undefined"
          /\ call.result.list = <<>>
          /\ call.result.e = NoError

\* A finished call whose two rules, one built-in and one custom, both pass.
C2_Witness ==
  \E c \in CallIds :
    LET call == vcalls[c]
    IN /\ call.pc = "done"
       /\ Len(call.validations) = 2
       /\ call.validations[1].validator = "isValid"
       /\ call.validations[2].validator = "isCool"
       /\ \A j \in 1..2 : Yielded(call, j, True)
       /\ call.result.st = "resolved"

\* C3: handleError on a ValidationError returns the error's own errors list
\* unchanged, with or without a handler list, scanning no handler rule and
\* invoking no block; for the failure validateInput raised, that list is
\* the entries of the failing rules in rule order.
C3_ValidationErrorBypassesHandlers ==
  \A c \in CallIds :
    LET call == hcalls[c]
    IN (call.pc # "idle" /\ call.err.cls = "ValidationError")
       => /\ call.pc = "done"
          /\ call.result.st = "resolved"
          /\ call.result.kind = "list"
          /\ call.result.list = call.err.errors
          /\ call.trace = <<>>
          /\ call.err = caught[c].e
          /\ caught[c].origin = "validateInput" => call.result.list = caught[c].failing

\* handleError has returned the two entries of a failure validateInput
\* raised, although a list of two handler rules was passed.
C3_Witness ==
  \E c \in CallIds :
    LET call == hcalls[c]
    IN /\ call.pc = "done"
       /\ call.err.cls = "ValidationError"
       /\ caught[c].origin = "validateInput"
       /\ Len(call.result.list) = 2
       /\ call.result.list[1] # call.result.list[2]
       /\ Len(call.handlers) = 2

(***************************************************************************)
(* The three tests of a handler rule, as the rules' documentation states   *)
(* them: the kind test holds when the error field is a kind name equal to  *)
(* the error's name, or an error class the error is an instance of.        *)
(***************************************************************************)
NameHolds(rule, err) == rule.error.t = "string" /\ rule.error.s = err.name

ClassHolds(rule, err) == rule.error.t = "function" /\ rule.error.s \in ClassChain(err.cls)

KindHolds(rule, err) == NameHolds(rule, err) \/ ClassHolds(rule, err)

CodeHolds(rule, err) == rule.options.code = Undefined \/ rule.options.code = err.code

BlockYields(rule, err, ctx, v) ==
  LET r == CallBlock(rule.options.block, err, ctx)
  IN r.k \in {"return", "fulfilled"} /\ r.v = v

BlockHolds(rule, err, ctx) ==
  rule.options.block = "undefined" \/ BlockYields(rule, err, ctx, True)

RuleMatches(rule, err, ctx) ==
  KindHolds(rule, err) /\ CodeHolds(rule, err) /\ BlockHolds(rule, err, ctx)

\* The rule passes the kind and code tests and its block, once invoked,
\* throws instead of answering.
BlockRaises(rule, err, ctx) ==
  /\ KindHolds(rule, err) /\ CodeHolds(rule, err)
  /\ rule.options.block # "undefined"
  /\ CallBlock(rule.options.block, err, ctx).k \in {"throw", "rejected"}

\* A finished handleError call on an error that is no ValidationError, with
\* a handler list.
Scanned(call) ==
  call.pc = "done" /\ call.err.cls # "ValidationError" /\ call.supplied

\* Rule j is the first rule of the call's list that matches, and the block
\* of no earlier rule raises.
FirstMatch(call, j) ==
  /\ j \in 1..Len(call.handlers)
  /\ RuleMatches(call.handlers[j], call.err, call.options)
  /\ \A k \in 1..(j - 1) :
       /\ ~RuleMatches(call.handlers[k], call.err, call.options)
       /\ ~BlockRaises(call.handlers[k], call.err, call.options)

\* C4: for an error that is no ValidationError and a handler list with a
\* matching rule, handleError returns the one-element list [{path, message}]
\* of the first matching rule in list order, also when later rules match
\* too (blocks answer true or false: a block that throws ends the call).
C4_FirstMatchWins ==
  \A c \in CallIds :
    LET call == hcalls[c]
    IN \A j \in 1..Len(call.handlers) :
         (Scanned(call) /\ FirstMatch(call, j))
         => /\ call.result.st = "resolved"
            /\ call.result.kind = "list"
            /\ call.result.list = <<Entry(call.handlers[j])>>

\* Both rules of the list match the error, they differ in path and
\* message, and the call has returned.
C4_Witness ==
  \E c \in CallIds :
    LET call == hcalls[c]
    IN /\ Scanned(call)
       /\ Len(call.handlers) = 2
       /\ \A j \in 1..2 : RuleMatches(call.handlers[j], call.err, call.options)
       /\ call.handlers[1].options.block = "yes"
       /\ Entry(call.handlers[1]) # Entry(call.handlers[2])
       /\ call.result.kind = "list"

\* The rule the call returned, 0 when it returned none.
MatchedRule(call) ==
  IF call.result.st = "resolved" /\ call.result.kind = "list" THEN call.i ELSE 0

\* C5: a handler rule whose error field is a kind name matches an error
\* that is no ValidationError iff the name equals the error's name, and
\* options.code is absent or equals the error's code (a rule with a code
\* never matches an error without one), and options.block is absent or
\* yields true; a rule failing one of the three is skipped, the scan going
\* on with the next rule (blocks answer true or false).
C5_MatchIsNameCodeBlock ==
  \A c \in CallIds :
    LET call == hcalls[c]
    IN Scanned(call) =>
         \A k \in 1..Len(call.trace) :
           LET j == call.trace[k].rule
               rule == call.handlers[j]
           IN (rule.error.t = "string" /\ ~BlockRaises(rule, call.err, call.options))
              => /\ RuleMatches(rule, call.err, call.options)
                    <=> (MatchedRule(call) = j /\ call.result.list = <<Entry(rule)>>)
                 /\ (rule.options.code # Undefined /\ call.err.code = Undefined)
                    => MatchedRule(call) # j
                 /\ call.trace[k].invoked
                    <=> (/\ NameHolds(rule, call.err) /\ CodeHolds(rule, call.err)
                         /\ rule.options.block # "undefined")
                 /\ ~RuleMatches(rule, call.err, call.options)
                    => \/ k < Len(call.trace) /\ call.trace[k + 1].rule = j + 1
                       \/ j = Len(call.handlers) /\ call.result.kind = "null"

\* A MongoError with code 11000: the first rule passes name and code but its
\* block yields false, the second sets the code and a block that yields
\* true, and is the one returned.
C5_Witness ==
  \E c \in CallIds :
    LET call == hcalls[c]
    IN /\ Scanned(call)
       /\ call.err.code = Num("11000")
       /\ Len(call.trace) = 2
       /\ call.trace[1].invoked /\ call.trace[1].out.v = False
       /\ call.handlers[2].options.code = Num("11000")
       /\ call.handlers[2].options.block = "yes"
       /\ MatchedRule(call) = 2

\* C6: for an error that is no ValidationError and a handler list none of
\* whose rules matches (the empty list included), handleError returns null,
\* which is no list (blocks answer true or false).
C6_NoMatchIsNull ==
  \A c \in CallIds :
    LET call == hcalls[c]
    IN (/\ Scanned(call)
        /\ \A j \in 1..Len(call.handlers) :
             /\ ~RuleMatches(call.handlers[j], call.err, call.options)
             /\ ~BlockRaises(call.handlers[j], call.err, call.options))
       => /\ call.result.st = "resolved"
          /\ call.result.kind = "null"
          /\ call.result.kind # "list"
          /\ call.result.list = <<>>

\* Two rules, neither matching: one fails the code test, the other passes
\* name and code and has a block that yields false.
C6_Witness ==
  \E c \in CallIds :
    LET call == hcalls[c]
    IN /\ Scanned(call)
       /\ Len(call.handlers) = 2
       /\ NameHolds(call.handlers[1], call.err) /\ ~CodeHolds(call.handlers[1], call.err)
       /\ call.trace[2].invoked /\ call.trace[2].out.v = False
       /\ call.result.kind = "null"

\* C7, as stated: whatever the error and the handler list, the result of
\* handleError is null or a list of exactly one entry, never an empty list.
C7_OneEntryOrNull ==
  \A c \in CallIds :
    LET call == hcalls[c]
    IN (call.pc = "done" /\ call.result.st = "resolved")
       => \/ call.result.kind = "null"
          \/ call.result.kind = "list" /\ Len(call.result.list) = 1

\* C7, amended: for an error that is no ValidationError the result of
\* handleError is null or a list of exactly one {path, message} entry; for
\* a ValidationError it is the error's errors list, of any length: one
\* entry per failing rule (at least one) for a failure validateInput raised.
C7_OneEntryOrNullUnlessValidationError ==
  \A c \in CallIds :
    LET call == hcalls[c]
    IN (call.pc = "done" /\ call.result.st = "resolved")
       => /\ call.err.cls # "ValidationError"
             => \/ call.result.kind = "null"
                \/ /\ call.result.kind = "list"
                   /\ Len(call.result.list) = 1
                   /\ DOMAIN call.result.list[1] = {"path", "message"}
          /\ call.err.cls = "ValidationError"
             => /\ call.result.kind = "list"
                /\ call.result.list = call.err.errors
                /\ caught[c].origin = "validateInput"
                   => /\ Len(call.result.list) >= 1
                      /\ call.result.list = caught[c].failing

\* handleError has returned the three entries of a failure that
\* validateInput raised for three failing rules.
C7_Witness ==
  \E c \in CallIds :
    LET call == hcalls[c]
    IN /\ call.pc = "done"
       /\ call.result.st = "resolved"
       /\ caught[c].origin = "validateInput"
       /\ call.err.cls = "ValidationError"
       /\ Len(call.result.list) = 3

\* C8: the failure validateInput raises for failing rules is a
\* ValidationError named 'ValidationError', with code 422 and a non-empty
\* errors list; validateInput raises no ValidationError with an empty list.
C8_FailureIsValidationError422 ==
  \A c \in CallIds :
    LET call == vcalls[c]
    IN call.pc = "done" =>
         /\ (AllResolved(call) /\ \E j \in 1..Len(call.validations) : Yielded(call, j, False))
            => /\ call.result.st = "rejected"
               /\ call.result.e.cls = "ValidationError"
         /\ (call.result.st = "rejected" /\ call.result.e.cls = "ValidationError")
            => /\ call.result.e.name = "ValidationError"
               /\ call.result.e.code = Num("422")
               /\ Len(call.result.e.errors) >= 1

\* A finished call with one rule, a custom validator that returned false.
C8_Witness ==
  \E c \in CallIds :
    LET call == vcalls[c]
    IN /\ call.pc = "done"
       /\ Len(call.validations) = 1
       /\ call.validations[1].validator = "isCool"
       /\ Yielded(call, 1, False)
       /\ call.result.st = "rejected"
       /\ call.result.e.cls = "ValidationError"

\* The error `throw new Error(`Unknown validator ${validatorName}`)` makes.
IsUnknownValidatorError(e, name) ==
  /\ e.cls = "Error"
  /\ e.name = "Error"
  /\ name = "isCool" => e.message = "Unknown validator isCool"
  /\ name = "isValid" => e.message = "Unknown validator isValid"
  /\ e.code = Undefined
  /\ e.errors = <<>>

\* The call has a lookup that found no validator: it was the last rule the
\* call reached, no predicate was invoked for it, and the call has ended
\* with the unknown-validator error, the failures collected so far unreported.
C9_EndedAtUnknown(call) ==
  \A k \in 1..Len(call.trace) :
    ~call.trace[k].found
    => /\ k = Len(call.trace)
       /\ call.trace[k].out = NoOutcome
       /\ call.pc = "done"
       /\ call.result.st = "rejected"
       /\ call.result.list = <<>>
       /\ IsUnknownValidatorError(call.result.e,
                                  call.validations[call.trace[k].rule].validator)

\* A step in which call c reaches a rule whose validator the registry does
\* not hold ends the call with the unknown-validator error; a step in which
\* the caller catches the error of call c receives that very error.
C9_Step(c) ==
  LET old == vcalls[c]
      new == vcalls'[c]
  IN /\ (/\ new.pc # "idle"
         /\ Len(new.trace) = (IF old.pc = "idle" THEN 0 ELSE Len(old.trace)) + 1
         /\ validators[new.validations[new.i].validator] = "undefined")
        => /\ new.pc = "done"
           /\ ~new.trace[Len(new.trace)].found
           /\ new.trace[Len(new.trace)].rule = new.i
           /\ IsUnknownValidatorError(new.result.e, new.validations[new.i].validator)
     /\ (old.pc = "done" /\ old.result.st = "rejected" /\ new.pc = "idle")
        => caught'[c].e = old.result.e

\* C9: when rule i names a validator the registry does not hold,
\* validateInput raises an unknown-validator error, no ValidationError, as
\* soon as rule i is reached: no predicate of rule i or of a later rule is
\* invoked, the failures of the rules before i are not reported, and the
\* caller receives the error unmodified.
C9_UnknownValidatorFailsFast ==
  /\ [](\A c \in CallIds : C9_EndedAtUnknown(vcalls[c]))
  /\ [][\A c \in CallIds : C9_Step(c)]_vars

\* Three rules: the first fails, the second names isCool while nothing is
\* registered under that name, and the call has ended without reaching the
\* third.
C9_Witness ==
  \E c \in CallIds :
    LET call == vcalls[c]
    IN /\ call.pc = "done"
       /\ Len(call.validations) = 3
       /\ Yielded(call, 1, False)
       /\ Len(call.errors) = 1
       /\ Len(call.trace) = 2
       /\ ~call.trace[2].found
       /\ call.result.st = "rejected"
       /\ call.result.e.cls # "ValidationError"

\* C10: when the predicate of rule i throws, or the promise it returned
\* rejects, validateInput ends with that same error: it is no FieldError
\* and no ValidationError, and no predicate of a later rule is invoked.
C10_PredicateErrorPropagates ==
  \A c \in CallIds :
    LET call == vcalls[c]
    IN \A k \in 1..Len(call.trace) :
         LET t == call.trace[k]
         IN (t.found /\ t.out.k \in {"throw", "rejected"})
            => /\ k = Len(call.trace)
               /\ t.out.k = "throw" => call.pc = "done"
               /\ call.pc \in {"await_validator", "done"}
               /\ call.pc = "await_validator" => call.pending = t.out
               /\ call.pc = "done"
                  => /\ call.result.st = "rejected"
                     /\ call.result.e = t.out.e
                     /\ call.result.e.cls # "ValidationError"
                     /\ call.result.list = <<>>
               /\ Len(call.errors) =
                    Cardinality({j \in 1..(t.rule - 1) : Yielded(call, j, False)})

\* Three rules: the first fails, the block of the second throws inside
\* isValid, whose promise rejects, and the call has ended with the block's
\* error without reaching the third.
C10_Witness ==
  \E c \in CallIds :
    LET call == vcalls[c]
    IN /\ call.pc = "done"
       /\ Len(call.validations) = 3
       /\ Yielded(call, 1, False)
       /\ Len(call.trace) = 2
       /\ call.trace[2].out.k = "rejected"
       /\ call.result.e = BlockError

\* Entry k of the call's trace records a rule that failed to match: it
\* failed the kind test or the code test, or its block answered false.
FailedToMatch(t) ==
  \/ ~t.kind
  \/ ~t.code
  \/ t.invoked /\ t.out.k \in {"return", "fulfilled"} /\ t.out.v = False

\* C11: handleError never raises because no rule matched.  For an error
\* that is no ValidationError and a handler list, a call that scanned every
\* rule and saw each fail to match completes with null; and whenever the
\* call does raise, the error is the one the block of the last rule it
\* reached threw, never one made for the lack of a match.
C11_NoMatchNeverRaises ==
  \A c \in CallIds :
    LET call == hcalls[c]
        n == Len(call.trace)
    IN Scanned(call) =>
         /\ (/\ n = Len(call.handlers)
             /\ \A k \in 1..n : call.trace[k].rule = k /\ FailedToMatch(call.trace[k]))
            => /\ call.result.st = "resolved"
               /\ call.result.e = NoError
               /\ call.result.kind = "null"
         /\ call.result.st = "rejected"
            => /\ n >= 1
               /\ call.trace[n].invoked
               /\ call.trace[n].out.k \in {"throw", "rejected"}
               /\ call.result.e = call.trace[n].out.e

\* A plain Error and two rules that name another kind: both fail the kind
\* test and the call has completed without raising.
C11_Witness ==
  \E c \in CallIds :
    LET call == hcalls[c]
    IN /\ Scanned(call)
       /\ call.err.name = "Error"
       /\ Len(call.handlers) = 2
       /\ Len(call.trace) = 2
       /\ \A k \in 1..2 : ~call.trace[k].kind
       /\ call.result.st = "resolved"
       /\ call.result.kind = "null"

\* C12: a handler rule whose error field is an error class passes the kind
\* test whenever the error is an instance of that class, also when the
\* error's name differs from the name of the class (an instance of a
\* subclass).
C12_ClassReferencePassesKindTest ==
  \A c \in CallIds :
    LET call == hcalls[c]
    IN \A k \in 1..Len(call.trace) :
         ClassHolds(call.handlers[call.trace[k].rule], call.err) => call.trace[k].kind

\* A step in which call c evaluates a rule resolves the rule's validator
\* name in the registry as it is at that step: a name the registry holds
\* is found and the predicate invoked is the function registered under it
\* now, with the value at the rule's path; a name it does not hold ends
\* the call with the unknown-validator error.
C13_Step(c) ==
  LET old == vcalls[c]
      new == vcalls'[c]
      n == Len(new.trace)
      validation == new.validations[new.i]
      fn == validators[validation.validator]
  IN (new.pc # "idle" /\ n = (IF old.pc = "idle" THEN 0 ELSE Len(old.trace)) + 1)
     => /\ new.trace[n].rule = new.i
        /\ fn # "undefined"
           => /\ new.trace[n].found
              /\ new.trace[n].out =
                   CallValidator(fn, Get(new.input, validation.path),
                                 validation.options, new.options)
        /\ fn = "undefined"
           => /\ ~new.trace[n].found
              /\ new.trace[n].out = NoOutcome
              /\ new.pc = "done"
              /\ IsUnknownValidatorError(new.result.e, validation.validator)

\* C13: a validator is resolved by name in the engine's own registry at the
\* moment its rule is evaluated: a freshly constructed engine resolves
\* every built-in name; once a custom predicate is registered under a
\* name, rules naming it invoke that predicate; once a name is removed, a
\* rule naming it raises the unknown-validator error.
C13_ResolvedAtEvaluationTime ==
  /\ \A n \in BuiltIns : Lookup(validators, n) = n
  /\ [][\A c \in CallIds : C13_Step(c)]_vars

\* One call, two rules naming isCool: the first invoked the registered
\* predicate; the name was removed while the call waited, and the second
\* rule ended the call with the unknown-validator error.
C13_Witness ==
  \E c \in CallIds :
    LET call == vcalls[c]
    IN /\ call.pc = "done"
       /\ Len(call.trace) = 2
       /\ \A k \in 1..2 : call.validations[k].validator = "isCool"
       /\ call.trace[1].found /\ call.trace[1].out = Returned(True)
       /\ ~call.trace[2].found
       /\ validators["isCool"] = "undefined"
       /\ call.result.st = "rejected"

\* C14: isFQDN and isURL, the built-in format validators, return false
\* and do not throw for a value that is no string (null, undefined, a
\* number, a boolean, an object, an array), whatever their options; in a
\* validateInput call such a rule contributes its {path, message} entry to
\* the ValidationError and the call does not end with an engine error at it.
C14_NonStringIsInvalid ==
  /\ \A fn \in FormatValidators, v \in NonStrings :
       \A o \in OptionsOf(fn) : CallValidator(fn, v, o, EmptyContext) = Returned(False)
  /\ \A c \in CallIds :
       LET call == vcalls[c]
       IN \A k \in 1..Len(call.trace) :
            LET t == call.trace[k]
                rule == call.validations[t.rule]
            IN (rule.validator \in FormatValidators /\ t.value.t # "string")
               => /\ t.found
                  /\ t.out = Returned(False)
                  /\ (call.pc = "done" /\ k = Len(call.trace))
                     => /\ call.result.st = "rejected"
                        /\ call.result.e.cls = "ValidationError"
                  /\ (call.pc = "done" /\ call.result.e.cls = "ValidationError")
                     => \E m \in 1..Len(call.result.e.errors) :
                          call.result.e.errors[m] = Entry(rule)

\* A finished call: isFQDN, told not to require a top-level domain, saw an
\* array and isURL saw null; the call raised a ValidationError with both
\* entries.
C14_Witness ==
  \E c \in CallIds :
    LET call == vcalls[c]
    IN /\ call.pc = "done"
       /\ Len(call.trace) = 2
       /\ call.validations[1].validator = "isFQDN"
       /\ call.validations[1].options.requireTld = False
       /\ call.trace[1].value = Arr
       /\ call.validations[2].validator = "isURL"
       /\ call.trace[2].value = Null
       /\ call.result.e.cls = "ValidationError"
       /\ Len(call.result.e.errors) = 2

\* C15: a rule using isLength with options {min, max} passes exactly when
\* the value is a string whose length lies in the closed range [min, max];
\* as the only rule of a call, a passing rule lets the call complete and a
\* failing one makes it raise a ValidationError with the rule's single
\* entry: with min 3 and max 5, 'John' passes and 'John Smith' fails.
C15_IsLengthClosedRange ==
  \A c \in CallIds :
    LET call == vcalls[c]
    IN \A k \in 1..Len(call.trace) :
         LET t == call.trace[k]
             rule == call.validations[t.rule]
             inRange == /\ t.value.t = "string"
                        /\ rule.options.min <= StrLen(t.value.s)
                        /\ StrLen(t.value.s) <= rule.options.max
         IN (rule.validator = "isLength" /\ call.pc = "done")
            => /\ t.found
               /\ t.out.k = "return"
               /\ t.out.v = (IF inRange THEN True ELSE False)
               /\ Len(call.validations) = 1
                  => /\ inRange => call.result = ResolvedUndefined
                     /\ ~inRange
                        => /\ call.result.st = "rejected"
                           /\ call.result.e.cls = "ValidationError"
                           /\ call.result.e.errors = <<Entry(rule)>>
               /\ (rule.options = [min |-> 3, max |-> 5] /\ t.value = Str("John"))
                  => inRange
               /\ (rule.options = [min |-> 3, max |-> 5] /\ t.value = Str("John Smith"))
                  => ~inRange

\* The call of the test: {name: 'John Smith'} against one isLength rule
\* with min 3 and max 5 has raised a ValidationError with the rule's entry.
C15_Witness ==
  \E c \in CallIds :
    LET call == vcalls[c]
    IN /\ call.pc = "done"
       /\ Len(call.validations) = 1
       /\ call.validations[1].validator = "isLength"
       /\ call.validations[1].path = "name"
       /\ call.validations[1].options = [min |-> 3, max |-> 5]
       /\ call.input = Obj({<<"name", Str("John Smith")>>})
       /\ call.result.e.cls = "ValidationError"
       /\ call.result.e.errors = <<Entry(call.validations[1])>>

\* C16: a rule using isValid passes exactly when options.block, invoked
\* with the value at the rule's path and the runContext and awaited,
\* yields true: the promise of isValid settles to what the block yields,
\* with no check added; as the only rule of a call, true lets the call
\* complete and false makes it raise the rule's entry; what the block
\* throws, or rejects with, ends validateInput with that error.
C16_IsValidDelegatesToBlock ==
  \A c \in CallIds :
    LET call == vcalls[c]
    IN \A k \in 1..Len(call.trace) :
         LET t == call.trace[k]
             rule == call.validations[t.rule]
             b == CallBlock(rule.options.block, Get(call.input, rule.path), call.options)
         IN rule.validator = "isValid"
            => /\ t.found
               /\ b.k \in {"return", "fulfilled"}
                  => /\ t.out = Fulfilled(b.v)
                     /\ (call.pc = "done" /\ Len(call.validations) = 1)
                        => /\ b.v = True => call.result = ResolvedUndefined
                           /\ b.v = False
                              => /\ call.result.st = "rejected"
                                 /\ call.result.e.errors = <<Entry(rule)>>
               /\ b.k \in {"throw", "rejected"}
                  => /\ t.out = Rejected(b.e)
                     /\ k = Len(call.trace)
                     /\ call.pc = "done"
                        => /\ call.result = RejectedWith(b.e)
                           /\ call.result.e.cls # "ValidationError"

\* Two isValid rules: the async block of the first saw 'cool' at a.b and
\* yielded true; the block of the second threw on a missing value, and the
\* call has ended with the block's error.
C16_Witness ==
  \E c \in CallIds :
    LET call == vcalls[c]
    IN /\ call.pc = "done"
       /\ Len(call.trace) = 2
       /\ call.validations[1].validator = "isValid"
       /\ call.validations[1].options.block = "resolvesEqualsCool"
       /\ call.validations[1].path = "a.b"
       /\ call.trace[1].out = Fulfilled(True)
       /\ call.validations[2].validator = "isValid"
       /\ call.validations[2].options.block = "throws"
       /\ call.trace[2].value = Null
       /\ call.result = RejectedWith(BlockError)

\* The value under key of a container: null when the container is no
\* object, or holds nothing, undefined or null under the key.
ValueUnder(container, key) ==
  IF container.t # "object" THEN Null
  ELSE LET hits == {p \in container.f : p[1] = key /\ p[2].t \notin {"undefined", "null"}}
       IN IF hits = {} THEN Null ELSE (CHOOSE p \in hits : TRUE)[2]

\* The value at a path of one segment, or at the two-segment path a.b.
ValueAt(input, path) ==
  IF path = "a.b" THEN ValueUnder(ValueUnder(input, "a"), "b") ELSE ValueUnder(input, path)

\* C17: the value a rule's predicate receives is the one found by
\* descending the input along the dot-separated segments of the rule's
\* path ({a: {b: 1}} holds 1 at a.b); when a segment is missing, or the
\* container reached is no object, the predicate receives null, and the
\* call does not fail on the lookup: it raises nothing but a
\* ValidationError or what a block throws.
C17_PredicateReceivesValueAtPath ==
  \A c \in CallIds :
    LET call == vcalls[c]
    IN /\ \A k \in 1..Len(call.trace) :
            LET t == call.trace[k]
                rule == call.validations[t.rule]
            IN /\ t.found
               /\ t.value = ValueAt(call.input, rule.path)
               /\ (call.input = Obj({<<"a", Obj({<<"b", Num("1")>>})>>}) /\ rule.path = "a.b")
                  => t.value = Num("1")
               /\ (call.input \in {Obj({}), Obj({<<"a", Str("cool")>>}), Obj({<<"a", Null>>})})
                  => t.value = Null
       /\ call.result.st = "rejected"
          => call.result.e.cls = "ValidationError" \/ call.result.e = BlockError

\* A finished call on {a: {b: 1}}: the predicate of the first rule received
\* 1 from a.b, that of the second null for the missing key name.
C17_Witness ==
  \E c \in CallIds :
    LET call == vcalls[c]
    IN /\ call.pc = "done"
       /\ call.input = Obj({<<"a", Obj({<<"b", Num("1")>>})>>})
       /\ Len(call.trace) = 2
       /\ call.validations[1].path = "a.b"
       /\ call.trace[1].value = Num("1")
       /\ call.validations[2].path = "name"
       /\ call.trace[2].value = Null

\* C18: in a validateInput call whose validators all resolve and whose
\* predicates do not throw, the predicate of every rule is invoked exactly
\* once, in list order, also for the rules after a failing one; the
\* ValidationError is raised only once the last rule has been evaluated,
\* and until then the call is pending whatever failures it holds.
C18_EveryRuleEvaluatedOnce ==
  \A c \in CallIds :
    LET call == vcalls[c]
        n == Len(call.trace)
    IN /\ \A k \in 1..n : call.trace[k].rule = k
       /\ (/\ call.pc = "done"
           /\ \A k \in 1..n :
                call.trace[k].found /\ call.trace[k].out.k \in {"return", "fulfilled"})
          => /\ n = Len(call.validations)
             /\ \A j \in 1..Len(call.validations) :
                  Cardinality({k \in 1..n : call.trace[k].rule = j}) = 1
       /\ (call.result.st = "rejected" /\ call.result.e.cls = "ValidationError")
          => /\ call.pc = "done"
             /\ n = Len(call.validations)
       /\ call.pc \in {"await_validator", "await_show"} => call.result = Pending

\* Three rules: the first failed, the second and the third were evaluated
\* nonetheless and passed, and the call has raised the one failure.
C18_Witness ==
  \E c \in CallIds :
    LET call == vcalls[c]
    IN /\ call.pc = "done"
       /\ Len(call.validations) = 3
       /\ Len(call.trace) = 3
       /\ Yielded(call, 1, False) /\ Yielded(call, 2, True) /\ Yielded(call, 3, True)
       /\ call.result.e.cls = "ValidationError"
       /\ Len(call.result.e.errors) = 1

\* The trace entries of a call whose predicate or block was invoked.
Invocations(call) ==
  {k \in 1..Len(call.trace) :
     IF "found" \in DOMAIN call.trace[k] THEN call.trace[k].found ELSE call.trace[k].invoked}

\* The block of rule j of a validateInput or of a handleError call.
RuleBlock(call, j) ==
  IF "validations" \in DOMAIN call THEN BlockOf(call.validations[j])
  ELSE call.handlers[j].options.block

\* The runContext a block leaves behind once it has settled.
LeftBy(block, ctx) ==
  IF block \in {"markNo", "markLaterNo"} THEN Obj(ctx.f \cup {<<"seen", True>>}) ELSE ctx

\* The rules of a call are reached in list order, every predecessor of an
\* invoked predicate or block has settled, and each receives the
\* runContext as its predecessors left it: a block that reads
\* runContext.seen answers true exactly when an earlier rule has set it.
C19_InOrder(call) ==
  LET n == Len(call.trace)
  IN /\ \A k \in 1..n : call.trace[k].rule = k
     /\ n >= 1 => call.trace[1].ctx = EmptyContext
     /\ \A k \in 1..(n - 1) :
          IF k \in Invocations(call)
          THEN /\ call.trace[k].out.k \in {"return", "fulfilled"}
               /\ call.trace[k + 1].ctx = LeftBy(RuleBlock(call, k), call.trace[k].ctx)
          ELSE call.trace[k + 1].ctx = call.trace[k].ctx
     /\ \A k \in 1..n :
          (k \in Invocations(call) /\ RuleBlock(call, k) = "ifMarked")
          => call.trace[k].out.v =
               (IF \E j \in 1..(k - 1) : RuleBlock(call, j) \in {"markNo", "markLaterNo"}
                THEN True ELSE False)

\* A step invokes at most one predicate or block of a call, and invokes
\* one after the first only as the step in which the promise of the
\* previous one, the one the call was waiting on, settles.
C19_OneInFlight(old, new) ==
  LET before == IF old.pc = "idle" THEN 0 ELSE Cardinality(Invocations(old))
      after == Cardinality(Invocations(new))
  IN new.pc # "idle"
     => /\ after <= before + 1
        /\ (after = before + 1 /\ before >= 1)
           => /\ old.pc \in {"await_validator", "await_block"}
              /\ old.pending = old.trace[Len(old.trace)].out
              /\ old.pending.k \in {"return", "fulfilled"}
              /\ new.i = old.i + 1
        /\ new.pc \in {"await_validator", "await_block"}
           => new.pending = new.trace[Len(new.trace)].out

\* C19: within one validateInput call and within one handleError call the
\* predicates and blocks are invoked in list order, that of rule i+1 not
\* before that of rule i has settled, so at most one is in flight and what
\* rule i did to the runContext is visible to rule i+1.
C19_SequentialWithinCall ==
  /\ [](\A c \in CallIds : C19_InOrder(vcalls[c]) /\ C19_InOrder(hcalls[c]))
  /\ [][\A c \in CallIds : /\ C19_OneInFlight(vcalls[c], vcalls'[c])
                            /\ C19_OneInFlight(hcalls[c], hcalls'[c])]_vars

\* Three rules of one validateInput call: the first read the runContext
\* before anything was set, the second set runContext.seen as its promise
\* settled, and the third, invoked after that, saw it.
C19_Witness ==
  \E c \in CallIds :
    LET call == vcalls[c]
    IN /\ call.pc = "done"
       /\ Len(call.trace) = 3
       /\ RuleBlock(call, 1) = "ifMarked" /\ call.trace[1].out.v = False
       /\ RuleBlock(call, 2) = "markLaterNo"
       /\ RuleBlock(call, 3) = "ifMarked" /\ call.trace[3].out.v = True
       /\ call.trace[2].ctx = EmptyContext
       /\ call.trace[3].ctx = Marked(EmptyContext)

\* The rules of the call whose block was invoked.
BlocksInvoked(call) ==
  {call.trace[k].rule : k \in {m \in 1..Len(call.trace) : call.trace[m].invoked}}

\* The rules whose block the scan is to invoke: those with a block that
\* pass the kind and code tests and come no later than the first rule that
\* matches in full.
BlocksDue(call) ==
  {j \in 1..Len(call.handlers) :
     /\ KindHolds(call.handlers[j], call.err)
     /\ CodeHolds(call.handlers[j], call.err)
     /\ call.handlers[j].options.block # "undefined"
     /\ \A m \in 1..(j - 1) : ~RuleMatches(call.handlers[m], call.err, call.options)}

\* C20: in handleError the block of a rule is invoked only when the rule
\* has passed the kind test and the code test, and no block is invoked
\* after a rule has matched: the blocks invoked by a finished call are
\* exactly those of the rules passing kind and code up to and including
\* the first full match (blocks answer true or false).
C20_BlocksOfMatchingRulesOnly ==
  \A c \in CallIds :
    LET call == hcalls[c]
    IN /\ \A k \in 1..Len(call.trace) :
            call.trace[k].invoked
            => /\ call.trace[k].kind /\ call.trace[k].code
               /\ KindHolds(call.handlers[call.trace[k].rule], call.err)
               /\ CodeHolds(call.handlers[call.trace[k].rule], call.err)
       /\ (/\ Scanned(call)
           /\ \A j \in 1..Len(call.handlers) :
                ~BlockRaises(call.handlers[j], call.err, call.options))
          => BlocksInvoked(call) = BlocksDue(call)

\* A handler list whose error fields are all kind names.
KindNamesOnly(call) ==
  \A j \in 1..Len(call.handlers) : call.handlers[j].error.t = "string"

\* For handler lists of kind names the scan returns the entry of the first
\* matching rule.
FirstMatchWinsAmongKindNames ==
  \A c \in CallIds :
    LET call == hcalls[c]
    IN \A j \in 1..Len(call.handlers) :
         (Scanned(call) /\ KindNamesOnly(call) /\ FirstMatch(call, j))
         => call.result = ResolvedList(<<Entry(call.handlers[j])>>)

\* For handler lists of kind names the blocks invoked are those of the
\* rules passing kind and code up to and including the first full match.
BlocksDueAmongKindNames ==
  \A c \in CallIds :
    LET call == hcalls[c]
    IN (/\ Scanned(call) /\ KindNamesOnly(call)
        /\ \A j \in 1..Len(call.handlers) :
             ~BlockRaises(call.handlers[j], call.err, call.options))
       => BlocksInvoked(call) = BlocksDue(call)

\* A validateInput call run with nothing else in flight, after its first n
\* rules on a fresh engine: the failures collected, the runContext, and the
\* rejection that ended it early, if any.
RECURSIVE Alone(_, _, _)
Alone(input, validations, n) ==
  IF n = 0
  THEN [errors |-> <<>>, ctx |-> EmptyContext, result |-> Pending]
  ELSE LET before == Alone(input, validations, n - 1)
           validation == validations[n]
           value == Get(input, validation.path)
           out == CallValidator(validation.validator, value, validation.options, before.ctx)
           got == Awaited(out)
           called == MutatedAtCall(BlockOf(validation), before.ctx)
           settled == MutatedAtSettle(BlockOf(validation), called)
       IN IF before.result # Pending THEN before
          ELSE IF out.k = "throw"
          THEN [before EXCEPT !.ctx = called, !.result = RejectedWith(out.e)]
          ELSE IF got.k = "rejected"
          THEN [before EXCEPT !.ctx = settled, !.result = RejectedWith(got.e)]
          ELSE [errors |-> PushIfInvalid(before.errors, validation, got.v),
                ctx |-> settled, result |-> Pending]

\* How the call settles when run alone.
RunAlone(input, validations) ==
  LET end == Alone(input, validations, Len(validations))
  IN IF end.result # Pending THEN end.result
     ELSE IF Len(end.errors) > 0 THEN RejectedWith(ValidationError(end.errors))
     ELSE ResolvedUndefined

\* C21: with validateInput calls of several requests interleaving at their
\* yields on one engine, every call collects exactly the failures of its
\* own rules on its own input, and settles as it would have run alone.
C21_CallsAreIsolated ==
  \A c \in ConcurrentCallIds :
    LET call == vcalls[c]
    IN /\ call.pc = "await_validator"
            => call.errors = Alone(call.input, call.validations, call.i - 1).errors
       /\ call.pc = "await_show"
            => call.errors = Alone(call.input, call.validations, Len(call.validations)).errors
       /\ call.pc = "done" => call.result = RunAlone(call.input, call.validations)

\* Two calls are waiting at a yield together, each holding a failure the
\* other does not hold.
C21_Witness ==
  /\ vcalls["c1"].pc = "await_validator" /\ vcalls["c2"].pc = "await_validator"
  /\ vcalls["c1"].i = 2 /\ vcalls["c2"].i = 2
  /\ vcalls["c1"].errors = <<[path |-> "word", message |-> "must be cool"]>>
  /\ vcalls["c2"].errors = <<[path |-> "user.word", message |-> "is not cool"]>>

\* C22: the failure validateInput raised keeps its errors list, its code
\* and its kind name for as long as the catch block holds it, whatever
\* runs meanwhile.
C22_FailureIsImmutable ==
  [][\A c \in ConcurrentCallIds :
       (caught[c].origin = "validateInput" /\ caught'[c].origin = "validateInput")
       => caught'[c].e = caught[c].e]_vars

\* A catch block holds a validation failure whose errors list has the
\* entry the caller added to the list handleError returned.
C22_Witness ==
  \E c \in ConcurrentCallIds :
    /\ caught[c].origin = "validateInput"
    /\ IsValidationError(caught[c].e)
    /\ Holds(caught[c].e.errors, CallerEntry)
    /\ hcalls[c].result = ResolvedList(caught[c].e.errors)

\* Nothing the engine does changes a failure once raised: handleError on
\* it and validateInput runs of other requests leave it as it was, and a
\* caller changes it only through the list handleError returned for it.
FailureChangedOnlyByCaller ==
  [][\A c \in ConcurrentCallIds :
       (caught[c].origin = "validateInput" /\ caught'[c].origin = "validateInput")
       => \/ caught'[c].e = caught[c].e
          \/ /\ ReturnsErrorsOfErr(hcalls[c])
             /\ caught'[c].e = [caught[c].e EXCEPT !.errors = Append(@, CallerEntry)]]_vars

\* C23: handleError called without a handler list resolves to the errors
\* of a validation failure, and for any other error rejects with the
\* TypeError of iterating undefined: it never resolves to null.
C23_HandlersOptionalForValidationFailuresOnly ==
  \A c \in CallIds :
    LET call == hcalls[c]
    IN (call.pc = "done" /\ ~call.supplied)
       => IF IsValidationError(call.err)
          THEN call.result = ResolvedList(call.err.errors)
          ELSE /\ call.result = RejectedWith(NotIterable)
               /\ call.result # ResolvedNull
               /\ call.trace = <<>>

\* handleError without a handler list has rejected for an error that is
\* not a validation failure.
C23_Witness ==
  \E c \in CallIds :
    /\ hcalls[c].pc = "done" /\ ~hcalls[c].supplied
    /\ caught[c].origin = "app"
    /\ ~IsValidationError(hcalls[c].err)
    /\ hcalls[c].result.st = "rejected"
    /\ hcalls[c].result.e.name = "TypeError"

\* handleError without a handler list has resolved to the errors of the
\* validation failure it was given.
C23_WitnessValidationFailure ==
  \E c \in CallIds :
    /\ hcalls[c].pc = "done" /\ ~hcalls[c].supplied
    /\ IsValidationError(hcalls[c].err)
    /\ hcalls[c].result.kind = "list" /\ Len(hcalls[c].result.list) > 0

\* The values JavaScript takes for false in a condition, among those the
\* blocks answer with.
FalsyValues == {False, Null, Undefined, Num("0"), Str("")}

\* The entries of the rules whose block answers with a falsy value.
FalsyEntries(validations) ==
  LET failing == SelectSeq(validations, LAMBDA r : Given(r.options.block) \in FalsyValues)
  IN [k \in 1..Len(failing) |-> Entry(failing[k])]

\* Handler j is the first whose block answers with a truthy value.
FirstTruthy(handlers, j) ==
  /\ j \in 1..Len(handlers)
  /\ Given(handlers[j].options.block) \notin FalsyValues
  /\ \A k \in 1..(j - 1) : Given(handlers[k].options.block) \in FalsyValues

\* C24: validateInput records a failure for exactly the rules whose
\* predicate result is falsy (false, null, undefined, 0, ""), whatever its
\* type, and handleError takes the first rule whose block result is truthy,
\* skipping those whose result is falsy.
C24_TruthinessDecides ==
  \A c \in CallIds :
    /\ LET call == vcalls[c]
       IN (call.pc = "done" /\ \A j \in 1..Len(call.validations) :
                                 call.validations[j].options.block \in ResultBlocks)
          => call.result = IF FalsyEntries(call.validations) = <<>>
                           THEN ResolvedUndefined
                           ELSE RejectedWith(ValidationError(FalsyEntries(call.validations)))
    /\ LET call == hcalls[c]
       IN (/\ call.pc = "done" /\ call.supplied /\ ~IsValidationError(call.err)
           /\ \A j \in 1..Len(call.handlers) :
                /\ call.handlers[j].options.block \in ResultBlocks
                /\ call.handlers[j].error = Str(call.err.name)
                /\ call.handlers[j].options.code = Undefined)
          => IF \E j \in 1..Len(call.handlers) : FirstTruthy(call.handlers, j)
             THEN \A j \in 1..Len(call.handlers) :
                    FirstTruthy(call.handlers, j)
                    => call.i = j /\ call.result = ResolvedList(<<Entry(call.handlers[j])>>)
             ELSE call.result = ResolvedNull

\* validateInput has passed a rule whose predicate gave a truthy value
\* that is not true and failed one whose predicate gave a falsy value that
\* is not false.
C24_Witness ==
  \E c \in CallIds :
    LET call == vcalls[c]
    IN /\ call.pc = "done" /\ Len(call.validations) = 2
       /\ Given(call.validations[1].options.block) \in {Num("1"), Str("cool"), Obj({}), Arr}
       /\ Given(call.validations[2].options.block) \in {Null, Undefined, Num("0"), Str("")}
       /\ call.result = RejectedWith(ValidationError(<<Entry(call.validations[2])>>))

\* handleError has skipped a rule whose block gave a falsy value that is
\* not false and matched one whose block gave a truthy value that is not
\* true.
C24_WitnessHandleError ==
  \E c \in CallIds :
    LET call == hcalls[c]
    IN /\ call.pc = "done" /\ Len(call.handlers) = 2
       /\ Given(call.handlers[1].options.block) \in {Null, Undefined, Num("0"), Str("")}
       /\ Given(call.handlers[2].options.block) \in {Num("1"), Str("cool"), Obj({}), Arr}
       /\ call.result = ResolvedList(<<Entry(call.handlers[2])>>)

====
